---- MODULE Spec2Model ----
(***************************************************************************)
(* A model of src/Midi.js: the Midi object, its decode pipeline (demux of  *)
(* the decoder's event tokens, channel/instrument split, tempo warp), and  *)
(* the calls made on a Midi at rest: fromJSON, track(), the bpm and        *)
(* timeSignature setters, applyTempoChanges, toJSON, slice and encode().   *)
(* toArray is encode read as char codes, get reads a track, load fetches   *)
(* bytes for decode.                                                       *)
(*                                                                         *)
(* Representation.  Times are kept in milliseconds (the code keeps seconds *)
(* as floating point numbers); every input drawn below makes the code's    *)
(* arithmetic exact, so the integer arithmetic here is the code's.  A      *)
(* missing (undefined) name is NoName, a missing duration is NoDuration, a *)
(* missing array slot is a key outside the DOMAIN.  Notes and controls are *)
(* JavaScript objects shared by reference between the raw tracks and the   *)
(* split tracks: they live in `heap` and the tracks hold their addresses.  *)
(* A velocity or controller value v/127 is kept as v, a pitch bend         *)
(* range*(v-8192)/8192 as range*(v-8192).                                  *)
(***************************************************************************)
EXTENDS Integers, Sequences, FiniteSets, TLC

VARIABLES
    midiData,            \* Decoder(bytes): [header, tracks] (the decode input)
    header,              \* this.header
    midiTracks,          \* this.tracks
    tempoChanges,        \* decode: const tempoChanges
    tracks,              \* decode: const tracks (the raw, mixed tracks)
    channelInstruments,  \* decode: const channelInstruments
    heap,                \* the Note and Control objects, by address
    trackIdx,            \* position of midiData.tracks.forEach
    eventIdx,            \* position of trackData.forEach
    channel,             \* decode: let channel (per raw track)
    instrument,          \* decode: let instrument (per raw track)
    absoluteTime,        \* decode: let absoluteTime (per raw track)
    channelCC,           \* decode: const channelCC (per raw track)
    channelPitchBendRange, \* decode: const channelPitchBendRange (per raw track)
    trackId,             \* decode: let trackId
    splitIdx,            \* position of tracks.forEach (the split)
    output,              \* encode: the Encoder.File's tracks
    returned,            \* the value returned by the latest toJSON or slice
    pc                   \* where the program is

vars == <<midiData, header, midiTracks, tempoChanges, tracks, channelInstruments,
          heap, trackIdx, eventIdx, channel, instrument, absoluteTime, channelCC,
          channelPitchBendRange, trackId, splitIdx, output, returned, pc>>

(***************************************************************************)
(* Bounds of the model.                                                    *)
(***************************************************************************)
MaxEvents == 5
MaxTempoEvents == 4
MaxInstrumentEvents == 4
MaxChannelEvents == 2
MaxEncodeEvents == 2
MaxAdded == 2
MaxJsonTracks == 2
MaxTime == 1500

(***************************************************************************)
(* Program constants.                                                      *)
(***************************************************************************)
DefaultBpm == 120
DefaultPPQ == 480
NoChannel == -1
NoInstrument == -1
NoDuration == -1
DefaultInstrument == 0
DefaultPitchBendRange == 2
DataEntry == 6
RpnLsb == 100
RpnMsb == 101
PitchBend == 128
NoName == "undefined"

(***************************************************************************)
(* Small helpers.                                                          *)
(***************************************************************************)
Get(f, k, default) == IF k \in DOMAIN f THEN f[k] ELSE default

Put(f, k, v) == [x \in DOMAIN f \cup {k} |-> IF x = k THEN v ELSE f[x]]

InsertAt(s, i, e) == SubSeq(s, 1, i) \o <<e>> \o SubSeq(s, i + 1, Len(s))

Has(e, fld) == fld \in DOMAIN e

\* JavaScript truthiness of event.channel: undefined and 0 are both falsy
ChannelTruthy(e) == Has(e, "channel") /\ e.channel # 0

\* JavaScript truthiness of a name: undefined and '' are both falsy
Truthy(name) == name \notin {NoName, ""}

(***************************************************************************)
(* The collaborators of Midi.js that are not among the sources.            *)
(***************************************************************************)
\* Util.ticksToSeconds(ticks, header), in milliseconds
ticksToSeconds(ticks, h) == (ticks * (60000 \div h.bpm)) \div h.PPQ

\* Util.cleanName(text): control characters are stripped
cleanName(text) == IF text = "title\\0" THEN "title" ELSE text

\* parseHeader(midiData)
parseHeader(data) ==
    [bpm |-> DefaultBpm, PPQ |-> data.header.ticksPerBeat, name |-> NoName,
     timeSignature |-> <<4, 4>>]

\* new Control(number, time, value)
Control(number, time, value) == [number |-> number, time |-> time, value |-> value]

\* findElement of BinaryInsert: the rightmost position whose time is <= time
FindElement(array, time) ==
    LET le == {i \in 1..Len(array) : array[i].time <= time}
    IN  IF le = {} THEN 0 ELSE CHOOSE i \in le : \A j \in le : j <= i

\* BinaryInsert(array, event)
BinaryInsert(array, event) == InsertAt(array, FindElement(array, event.time), event)

\* BinaryInsert on a sequence of heap addresses
BinaryInsertRef(array, addr, h) ==
    LET le == {i \in 1..Len(array) : h[array[i]].time <= h[addr].time}
        at == IF le = {} THEN 0 ELSE CHOOSE i \in le : \A j \in le : j <= i
    IN  InsertAt(array, at, addr)

\* new Track(name, instrumentNumber, channel)
Track(name, instrumentNumber, channelNumber) ==
    [name |-> name, instrumentNumber |-> instrumentNumber,
     channelNumber |-> channelNumber, notes |-> <<>>,
     controlChanges |-> <<>>, id |-> -1, midiType |-> -1]

\* Track.length
TrackLength(t) ==
    Len(t.notes) + Cardinality({k \in DOMAIN t.controlChanges : Len(t.controlChanges[k]) > 0})

\* the setter Track.instrument = text, read back as instrumentNumber
PatchByName(text) ==
    IF text = "violin" THEN 40 ELSE IF text = "flute" THEN 73 ELSE NoInstrument

\* track.noteOn(midi, time, velocity, channel, instrument): [track, heap]
TrackNoteOn(t, h, midi, time, velocity, ch, inst) ==
    LET note == [kind |-> "note", number |-> midi, time |-> time,
                 duration |-> NoDuration, value |-> velocity,
                 channel |-> ch, instrument |-> inst]
        h2 == Append(h, note)
    IN  [track |-> [t EXCEPT !.notes = BinaryInsertRef(t.notes, Len(h2), h2)],
         heap |-> h2]

\* track.noteOff(midi, time, channel): the oldest pending note gets its duration
TrackNoteOff(t, h, midi, time, ch) ==
    LET pending == {i \in 1..Len(t.notes) :
                        /\ h[t.notes[i]].number = midi
                        /\ h[t.notes[i]].channel = ch
                        /\ h[t.notes[i]].duration = NoDuration}
    IN  IF pending = {} THEN h
        ELSE LET i == CHOOSE i \in pending : \A j \in pending : i <= j
                 a == t.notes[i]
             IN  [h EXCEPT ![a].duration = time - h[a].time]

\* track.cc(number, time, value, channel, instrument): [track, heap]
TrackCc(t, h, number, time, value, ch, inst) ==
    LET cc == [kind |-> "cc", number |-> number, time |-> time,
               duration |-> NoDuration, value |-> value,
               channel |-> ch, instrument |-> inst]
        h2 == Append(h, cc)
        old == Get(t.controlChanges, number, <<>>)
    IN  [track |-> [t EXCEPT !.controlChanges =
                        Put(t.controlChanges, number, BinaryInsertRef(old, Len(h2), h2))],
         heap |-> h2]

(***************************************************************************)
(* decode: the body of trackData.forEach.  The state the callback reads    *)
(* and writes is passed as a record s with the fields track, heap,         *)
(* channel, instrument, channelInstruments, tempoChanges, channelCC and    *)
(* channelPitchBendRange; time is absoluteTime after the event's delta.    *)
(***************************************************************************)
\* if (event.channel && track.channelNumber === -1)
AssignChannel(s, e) ==
    IF ChannelTruthy(e) /\ s.track.channelNumber = NoChannel
    THEN [s EXCEPT !.track.channelNumber = e.channel]
    ELSE s

\* event.controllerType, 0 standing for undefined (both are falsy)
ControllerType(e) == IF Has(e, "controllerType") THEN e.controllerType ELSE 0

\* Keep track of current channel ControlChange
TrackChannelCC(s, e) ==
    IF e.type = "channel" /\ e.subtype = "controller" /\ ControllerType(e) # 0
    THEN [s EXCEPT !.channelCC = Put(s.channelCC, <<e.channel, e.controllerType>>, e.value)]
    ELSE s

\* channelInstruments[channel] === undefined ? -1 : channelInstruments[channel]
CurrentInstrument(ci, ch) == Get(ci, ch, NoInstrument)

\* the branches of the chain
TrackNameBranch(s, e, time) == [s EXCEPT !.track.name = cleanName(e.text)]

NoteOnBranch(s, e, time) ==
    LET t1 == IF s.track.channelNumber = NoChannel
              THEN [s.track EXCEPT !.channelNumber = e.channel] ELSE s.track
        ch == e.channel
        inst == CurrentInstrument(s.channelInstruments, ch)
        r == TrackNoteOn(t1, s.heap, e.noteNumber, time, e.velocity, ch, inst)
    IN  [s EXCEPT !.track = r.track, !.heap = r.heap, !.channel = ch, !.instrument = inst]

NoteOffBranch(s, e, time) ==
    [s EXCEPT !.heap = TrackNoteOff(s.track, s.heap, e.noteNumber, time, e.channel)]

ControllerBranch(s, e, time) ==
    LET ch == e.channel
        inst == CurrentInstrument(s.channelInstruments, ch)
        r == TrackCc(s.track, s.heap, e.controllerType, time, e.value, ch, inst)
        range == /\ e.controllerType = DataEntry
                 /\ Get(s.channelCC, <<ch, RpnLsb>>, 0) = 0
                 /\ Get(s.channelCC, <<ch, RpnMsb>>, -1) = 0
    IN  [s EXCEPT !.track = r.track, !.heap = r.heap, !.channel = ch, !.instrument = inst,
                  !.channelPitchBendRange =
                      IF range THEN Put(@, ch, e.value) ELSE @]

InstrumentNameBranch(s, e, time) ==
    LET ch == IF ChannelTruthy(e) THEN e.channel ELSE s.channel
        inst == PatchByName(e.text)
    IN  [s EXCEPT !.channel = ch, !.instrument = inst,
                  !.track.instrumentNumber =
                      IF @ = NoInstrument THEN inst ELSE @,
                  !.channelInstruments = Put(@, ch, inst)]

\* 60 / (event.microsecondsPerBeat / 1000000)
NewBpm(e) == 60000000 \div e.microsecondsPerBeat

\* the setTempo branch, were the breakpoint pushed at the end
SetTempoAppend(s, e, time) ==
    [s EXCEPT !.tempoChanges = Append(@, Control("null", time, NewBpm(e)))]

\* the setTempo branch
SetTempoBranch(s, e, time) ==
    [s EXCEPT !.tempoChanges = BinaryInsert(@, Control("null", time, NewBpm(e)))]

\* the programChange branch, were channelInstruments left alone
ProgramChangeBranchNoRecord(s, e, time) ==
    [s EXCEPT !.track.instrumentNumber =
                  IF @ = NoInstrument THEN e.programNumber ELSE @,
              !.instrument = e.programNumber, !.channel = e.channel]

\* the programChange branch
ProgramChangeBranch(s, e, time) ==
    [s EXCEPT !.track.instrumentNumber =
                  IF @ = NoInstrument THEN e.programNumber ELSE @,
              !.instrument = e.programNumber, !.channel = e.channel,
              !.channelInstruments = Put(@, e.channel, e.programNumber)]

PitchBendBranch(s, e, time) ==
    LET stored == Get(s.channelPitchBendRange, e.channel, 0)
        pitchBendRange == IF stored # 0 THEN stored ELSE DefaultPitchBendRange
        pitchBendValue == pitchBendRange * (e.value - 8192)
        ch == e.channel
        inst == CurrentInstrument(s.channelInstruments, ch)
        r == TrackCc(s.track, s.heap, PitchBend, time, pitchBendValue, ch, inst)
    IN  [s EXCEPT !.track = r.track, !.heap = r.heap, !.channel = ch, !.instrument = inst]

\* the if / else-if chain on the event's type and subtype
Dispatch(s, e, time) ==
    IF e.type = "meta" /\ e.subtype = "trackName" THEN TrackNameBranch(s, e, time)
    ELSE IF e.subtype = "noteOn" THEN NoteOnBranch(s, e, time)
    ELSE IF e.subtype = "noteOff" THEN NoteOffBranch(s, e, time)
    ELSE IF e.subtype = "controller" /\ ControllerType(e) # 0 THEN ControllerBranch(s, e, time)
    ELSE IF e.type = "meta" /\ e.subtype = "instrumentName" THEN InstrumentNameBranch(s, e, time)
    ELSE IF e.type = "meta" /\ e.subtype = "setTempo" THEN SetTempoBranch(s, e, time)
    ELSE IF e.type = "channel" /\ e.subtype = "programChange" THEN ProgramChangeBranch(s, e, time)
    ELSE IF e.type = "channel" /\ e.subtype = "pitchBend" THEN PitchBendBranch(s, e, time)
    ELSE s

HandleEvent(s, e, time) == Dispatch(TrackChannelCC(AssignChannel(s, e), e), e, time)

(***************************************************************************)
(* decode: the split of one mixed track.  subTracks[channel][instrument]   *)
(* is a function on the pairs <<channel, instrument>> that have a slot.    *)
(***************************************************************************)
\* getSubtrack, were a new Track made on every call
GetSubtrackFresh(sub, mixedTrack, formatType, ch, inst) ==
    Put(sub, <<ch, inst>>,
        [Track(mixedTrack.name, inst, ch) EXCEPT !.midiType = formatType])

\* getSubtrack(channel, instrument), as the subTracks it leaves behind
GetSubtrack(sub, mixedTrack, formatType, ch, inst) ==
    IF <<ch, inst>> \in DOMAIN sub THEN sub
    ELSE Put(sub, <<ch, inst>>,
             [Track(mixedTrack.name, inst, ch) EXCEPT !.midiType = formatType])

\* the instrument, were the final fallback to 0 left out
ResolveInstrumentNoDefault(el, mixedTrack) ==
    IF el.instrument # NoInstrument THEN el.instrument ELSE mixedTrack.instrumentNumber

\* the channel and the instrument an element is filed under
ResolveChannel(el, mixedTrack) ==
    IF el.channel = NoChannel THEN mixedTrack.channelNumber ELSE el.channel

ResolveInstrument(el, mixedTrack) ==
    IF el.instrument # NoInstrument THEN el.instrument
    ELSE IF mixedTrack.instrumentNumber # NoInstrument THEN mixedTrack.instrumentNumber
    ELSE DefaultInstrument

\* the body of mixedTrack.notes.forEach; st is [sub, heap]
SplitNote(st, mixedTrack, formatType, addr) ==
    LET ch == ResolveChannel(st.heap[addr], mixedTrack)
        inst == ResolveInstrument(st.heap[addr], mixedTrack)
        sub == GetSubtrack(st.sub, mixedTrack, formatType, ch, inst)
    IN  [sub |-> [sub EXCEPT ![<<ch, inst>>].notes = Append(@, addr)],
         heap |-> [st.heap EXCEPT ![addr].channel = ch, ![addr].instrument = inst]]

RECURSIVE SplitNotes(_, _, _, _)
SplitNotes(st, mixedTrack, formatType, notes) ==
    IF notes = <<>> THEN st
    ELSE SplitNotes(SplitNote(st, mixedTrack, formatType, Head(notes)),
                    mixedTrack, formatType, Tail(notes))

\* the body of mixedTrack.controlChanges[controlType].forEach
SplitControl(st, mixedTrack, formatType, controlType, addr) ==
    LET ch == ResolveChannel(st.heap[addr], mixedTrack)
        inst == ResolveInstrument(st.heap[addr], mixedTrack)
        sub == GetSubtrack(st.sub, mixedTrack, formatType, ch, inst)
        trackCc == sub[<<ch, inst>>].controlChanges
    IN  [sub |-> [sub EXCEPT ![<<ch, inst>>].controlChanges =
                      Put(trackCc, controlType,
                          Append(Get(trackCc, controlType, <<>>), addr))],
         heap |-> [st.heap EXCEPT ![addr].channel = ch, ![addr].instrument = inst]]

RECURSIVE SplitControlList(_, _, _, _, _)
SplitControlList(st, mixedTrack, formatType, controlType, ccs) ==
    IF ccs = <<>> THEN st
    ELSE SplitControlList(SplitControl(st, mixedTrack, formatType, controlType, Head(ccs)),
                          mixedTrack, formatType, controlType, Tail(ccs))

\* Object.keys(obj): the integer keys ascending, then 'pitchBend'
RECURSIVE ObjectKeys(_)
ObjectKeys(keys) ==
    IF keys = {} THEN <<>>
    ELSE LET k == CHOOSE k \in keys : \A x \in keys : k <= x
         IN  <<k>> \o ObjectKeys(keys \ {k})

RECURSIVE SplitControls(_, _, _, _)
SplitControls(st, mixedTrack, formatType, keys) ==
    IF keys = <<>> THEN st
    ELSE SplitControls(
             SplitControlList(st, mixedTrack, formatType, Head(keys),
                              mixedTrack.controlChanges[Head(keys)]),
             mixedTrack, formatType, Tail(keys))

\* the order, were the instrument the outer index
KeyBeforeInstrumentMajor(a, b) == a[2] < b[2] \/ (a[2] = b[2] /\ a[1] <= b[1])

\* <<c1, i1>> comes before <<c2, i2>> in subTracks.forEach(channelTracks.forEach)
KeyBefore(a, b) == a[1] < b[1] \/ (a[1] = b[1] /\ a[2] <= b[2])

\* the slots the nested forEach visits, in its order: array indices only
RECURSIVE ForEachOrder(_)
ForEachOrder(keys) ==
    IF keys = {} THEN <<>>
    ELSE LET k == CHOOSE k \in keys : \A x \in keys : KeyBefore(k, x)
         IN  <<k>> \o ForEachOrder(keys \ {k})

VisitedSlots(sub) == ForEachOrder({k \in DOMAIN sub : k[1] >= 0 /\ k[2] >= 0})

\* Insert sub tracks: [tracks, trackId]
RECURSIVE InsertSubTracks(_, _, _, _)
InsertSubTracks(out, id, sub, order) ==
    IF order = <<>> THEN [tracks |-> out, trackId |-> id]
    ELSE InsertSubTracks(Append(out, [sub[Head(order)] EXCEPT !.id = id]),
                         id + 1, sub, Tail(order))

\* the body of tracks.forEach: [tracks, trackId, heap]
SplitMixedTrack(out, id, h, mixedTrack, formatType) ==
    LET st1 == SplitNotes([sub |-> <<>>, heap |-> h], mixedTrack, formatType,
                          mixedTrack.notes)
        st2 == SplitControls(st1, mixedTrack, formatType,
                             ObjectKeys(DOMAIN mixedTrack.controlChanges))
        ins == InsertSubTracks(out, id, st2.sub, VisitedSlots(st2.sub))
    IN  [tracks |-> ins.tracks, trackId |-> ins.trackId, heap |-> st2.heap]

(***************************************************************************)
(* applyTempoChanges.  A speed bpm / value is kept as the pair             *)
(* <<bpm, value>>.                                                         *)
(***************************************************************************)
Scale(x, speed) == (x * speed[1]) \div speed[2]

\* the while loop of applyTempo; w is [oldTime, newTime, index, speed, heap]
RECURSIVE AfterNextControl(_, _, _, _)
AfterNextControl(w, time, changes, bpm) ==
    IF w.index + 1 <= Len(changes) /\ time >= changes[w.index + 1].time
    THEN AfterNextControl(
             [w EXCEPT !.newTime = @ + Scale(changes[w.index + 1].time - w.oldTime, w.speed),
                       !.index = @ + 1,
                       !.oldTime = changes[w.index + 1].time,
                       !.speed = <<bpm, changes[w.index + 1].value>>],
             time, changes, bpm)
    ELSE w

\* the body of elements.forEach in applyTempo
WarpElement(w, addr, changes, bpm) ==
    LET el == w.heap[addr]
    IN  IF el.time < changes[w.index].time THEN w
        ELSE LET w1 == [w EXCEPT !.oldTime = changes[w.index].time,
                                 !.speed = <<bpm, changes[w.index].value>>]
                 w2 == AfterNextControl(w1, el.time, changes, bpm)
             IN  [w2 EXCEPT !.heap[addr].time =
                                Scale(el.time - w2.oldTime, w2.speed) + w2.newTime,
                            !.heap[addr].duration =
                                IF @ # NoDuration THEN Scale(@, w2.speed) ELSE @]

RECURSIVE WarpElements(_, _, _, _)
WarpElements(w, elements, changes, bpm) ==
    IF elements = <<>> THEN w
    ELSE WarpElements(WarpElement(w, Head(elements), changes, bpm),
                      Tail(elements), changes, bpm)

\* applyTempo(elements), as the heap it leaves behind
applyTempo(h, elements, changes, bpm) ==
    IF elements = <<>> THEN h
    ELSE WarpElements([oldTime |-> 0, newTime |-> 0, index |-> 1,
                       speed |-> <<1, 1>>, heap |-> h],
                      elements, changes, bpm).heap

RECURSIVE WarpControls(_, _, _, _, _)
WarpControls(h, track, keys, changes, bpm) ==
    IF keys = <<>> THEN h
    ELSE WarpControls(applyTempo(h, track.controlChanges[Head(keys)], changes, bpm),
                      track, Tail(keys), changes, bpm)

\* the body of this.tracks.forEach in applyTempoChanges
WarpTrack(h, track, changes, bpm) ==
    WarpControls(applyTempo(h, track.notes, changes, bpm), track,
                 ObjectKeys(DOMAIN track.controlChanges), changes, bpm)

RECURSIVE WarpTracks(_, _, _, _)
WarpTracks(h, ts, changes, bpm) ==
    IF ts = <<>> THEN h
    ELSE WarpTracks(WarpTrack(h, Head(ts), changes, bpm), Tail(ts), changes, bpm)

\* applyTempoChanges, were an empty sequence read as one change to 60 BPM at 0
applyTempoChangesAlways(h, ts, changes, bpm) ==
    WarpTracks(h, ts, IF Len(changes) = 0 THEN <<Control("null", 0, 60)>> ELSE changes, bpm)

\* applyTempoChanges(changes, bpm), as the heap it leaves behind
applyTempoChanges(h, ts, changes, bpm) ==
    IF Len(changes) = 0 THEN h ELSE WarpTracks(h, ts, changes, bpm)

(***************************************************************************)
(* encode.  The Encoder.File is the sequence of its tracks, a track the    *)
(* sequence of the events added to it.                                     *)
(***************************************************************************)
\* Track.encode(trackEncoder, header): the notes, in ticks
RECURSIVE TrackEncode(_, _, _)
TrackEncode(notes, h, hd) ==
    IF notes = <<>> THEN <<>>
    ELSE <<[type |-> "note", data |-> NoName, number |-> h[Head(notes)].number,
            tick |-> (h[Head(notes)].time * hd.bpm * hd.PPQ) \div 60000]>>
         \o TrackEncode(Tail(notes), h, hd)

MetaTrackName(name) == [type |-> "trackName", data |-> name, number |-> 0, tick |-> 0]

\* this.tracks.filter(track => !track.length)
RECURSIVE EmptyTracks(_)
EmptyTracks(ts) ==
    IF ts = <<>> THEN <<>>
    ELSE (IF TrackLength(Head(ts)) = 0 THEN <<Head(ts)>> ELSE <<>>) \o EmptyTracks(Tail(ts))

\* the test, were every empty track looked at
NeedsNameTrackAnyEmpty(hd, ts) ==
    LET empty == EmptyTracks(ts)
    IN  Truthy(hd.name) /\ ~(\E i \in 1..Len(empty) : empty[i].name = hd.name)

\* header.name && !(firstEmptyTrack && firstEmptyTrack.name === header.name)
NeedsNameTrack(hd, ts) ==
    LET empty == EmptyTracks(ts)
    IN  Truthy(hd.name) /\ ~(empty # <<>> /\ empty[1].name = hd.name)

\* the body of this.tracks.forEach in encode
EncodeTrack(track, h, hd) ==
    <<[type |-> "setTempo", data |-> NoName, number |-> hd.bpm, tick |-> 0]>>
    \o (IF Truthy(track.name) THEN <<MetaTrackName(track.name)>> ELSE <<>>)
    \o TrackEncode(track.notes, h, hd)

RECURSIVE EncodeTracks(_, _, _)
EncodeTracks(ts, h, hd) ==
    IF ts = <<>> THEN <<>>
    ELSE <<EncodeTrack(Head(ts), h, hd)>> \o EncodeTracks(Tail(ts), h, hd)

\* encode(), as the tracks of the Encoder.File
encode(hd, ts, h) ==
    (IF NeedsNameTrack(hd, ts) THEN <<<<MetaTrackName(hd.name)>>>> ELSE <<>>)
    \o EncodeTracks(ts, h, hd)

(***************************************************************************)
(* The decoder's event tokens.                                             *)
(***************************************************************************)
NoteOn(d, ch, n, v) ==
    [deltaTime |-> d, type |-> "channel", subtype |-> "noteOn", channel |-> ch,
     noteNumber |-> n, velocity |-> v]

NoteOff(d, ch, n) ==
    [deltaTime |-> d, type |-> "channel", subtype |-> "noteOff", channel |-> ch,
     noteNumber |-> n, velocity |-> 0]

Controller(d, ch, c, v) ==
    [deltaTime |-> d, type |-> "channel", subtype |-> "controller", channel |-> ch,
     controllerType |-> c, value |-> v]

ProgramChange(d, ch, p) ==
    [deltaTime |-> d, type |-> "channel", subtype |-> "programChange", channel |-> ch,
     programNumber |-> p]

PitchBendEvent(d, ch, v) ==
    [deltaTime |-> d, type |-> "channel", subtype |-> "pitchBend", channel |-> ch,
     value |-> v]

TrackName(d, text) ==
    [deltaTime |-> d, type |-> "meta", subtype |-> "trackName", text |-> text]

InstrumentName(d, text) ==
    [deltaTime |-> d, type |-> "meta", subtype |-> "instrumentName", text |-> text]

SetTempo(d, us) ==
    [deltaTime |-> d, type |-> "meta", subtype |-> "setTempo", microsecondsPerBeat |-> us]

\* the streams of at most two raw tracks and at most n events over an alphabet
Streams(alphabet, n) ==
    {<<>>}
    \cup UNION {{<<a>> : a \in [1..i -> alphabet]} : i \in 0..n}
    \cup UNION {{<<a, b>> : a \in [1..ij[1] -> alphabet], b \in [1..ij[2] -> alphabet]} :
                    ij \in {x \in (0..n) \X (0..n) : x[1] + x[2] <= n}}

MidiFiles(alphabet, n) ==
    {[header |-> [formatType |-> 1, ticksPerBeat |-> DefaultPPQ], tracks |-> t] :
        t \in Streams(alphabet, n)}

(***************************************************************************)
(* The state machine.                                                      *)
(***************************************************************************)
\* new Midi(), about to decode one of the given files
Constructed(files) ==
    /\ midiData \in files
    /\ header = [bpm |-> DefaultBpm, PPQ |-> DefaultPPQ, name |-> NoName,
                 timeSignature |-> <<4, 4>>]
    /\ midiTracks = <<>>
    /\ tempoChanges = <<>>
    /\ tracks = <<>>
    /\ channelInstruments = <<>>
    /\ heap = <<>>
    /\ trackIdx = 0
    /\ eventIdx = 0
    /\ channel = NoChannel
    /\ instrument = NoInstrument
    /\ absoluteTime = 0
    /\ channelCC = <<>>
    /\ channelPitchBendRange = <<>>
    /\ trackId = 0
    /\ splitIdx = 0
    /\ output = <<>>
    /\ returned = <<>>
    /\ pc = "new"

\* decode, up to midiData.tracks.forEach
Decode ==
    /\ pc = "new"
    /\ header' = parseHeader(midiData)
    /\ tempoChanges' = <<>>
    /\ tracks' = <<>>
    /\ channelInstruments' = <<>>
    /\ trackIdx' = 1
    /\ pc' = "track"
    /\ UNCHANGED <<midiData, midiTracks, heap, eventIdx, channel, instrument,
                   absoluteTime, channelCC, channelPitchBendRange, trackId, splitIdx,
                   output, returned>>

\* midiData.tracks.forEach: the callback, up to trackData.forEach
BeginTrack ==
    /\ pc = "track"
    /\ trackIdx <= Len(midiData.tracks)
    /\ tracks' = Append(tracks, Track(NoName, NoInstrument, NoChannel))
    /\ channel' = NoChannel
    /\ instrument' = NoInstrument
    /\ absoluteTime' = 0
    /\ channelCC' = <<>>
    /\ channelPitchBendRange' = <<>>
    /\ eventIdx' = 1
    /\ pc' = "event"
    /\ UNCHANGED <<midiData, header, midiTracks, tempoChanges, channelInstruments,
                   heap, trackIdx, trackId, splitIdx, output, returned>>

\* trackData.forEach: the callback, on the next event
DemuxEvent ==
    /\ pc = "event"
    /\ eventIdx <= Len(midiData.tracks[trackIdx])
    /\ LET e == midiData.tracks[trackIdx][eventIdx]
           time == absoluteTime + ticksToSeconds(e.deltaTime, header)
           s == HandleEvent([track |-> tracks[trackIdx], heap |-> heap,
                             channel |-> channel, instrument |-> instrument,
                             channelInstruments |-> channelInstruments,
                             tempoChanges |-> tempoChanges, channelCC |-> channelCC,
                             channelPitchBendRange |-> channelPitchBendRange],
                            e, time)
       IN  /\ absoluteTime' = time
           /\ tracks' = [tracks EXCEPT ![trackIdx] = s.track]
           /\ heap' = s.heap
           /\ channel' = s.channel
           /\ instrument' = s.instrument
           /\ channelInstruments' = s.channelInstruments
           /\ tempoChanges' = s.tempoChanges
           /\ channelCC' = s.channelCC
           /\ channelPitchBendRange' = s.channelPitchBendRange
    /\ eventIdx' = eventIdx + 1
    /\ UNCHANGED <<midiData, header, midiTracks, trackIdx, trackId, splitIdx, output, returned, pc>>

\* if the track is empty, then it is the file name
AdoptName(hd, track) ==
    IF ~Truthy(hd.name) /\ TrackLength(track) = 0 /\ Truthy(track.name)
    THEN [hd EXCEPT !.name = track.name] ELSE hd

\* midiData.tracks.forEach: the end of the callback
EndTrack ==
    /\ pc = "event"
    /\ eventIdx > Len(midiData.tracks[trackIdx])
    /\ header' = AdoptName(header, tracks[trackIdx])
    /\ trackIdx' = trackIdx + 1
    /\ pc' = "track"
    /\ UNCHANGED <<midiData, midiTracks, tempoChanges, tracks, channelInstruments, heap,
                   eventIdx, channel, instrument, absoluteTime, channelCC,
                   channelPitchBendRange, trackId, splitIdx, output, returned>>

\* replace the previous tracks
BeginSplit ==
    /\ pc = "track"
    /\ trackIdx > Len(midiData.tracks)
    /\ midiTracks' = <<>>
    /\ trackId' = 0
    /\ splitIdx' = 1
    /\ pc' = "split"
    /\ UNCHANGED <<midiData, header, tempoChanges, tracks, channelInstruments, heap,
                   trackIdx, eventIdx, channel, instrument, absoluteTime, channelCC,
                   channelPitchBendRange, output, returned>>

\* tracks.forEach: the callback, on the next mixed track
SplitTrack ==
    /\ pc = "split"
    /\ splitIdx <= Len(tracks)
    /\ LET r == SplitMixedTrack(midiTracks, trackId, heap, tracks[splitIdx],
                                midiData.header.formatType)
       IN  /\ midiTracks' = r.tracks
           /\ trackId' = r.trackId
           /\ heap' = r.heap
    /\ splitIdx' = splitIdx + 1
    /\ UNCHANGED <<midiData, header, tempoChanges, tracks, channelInstruments,
                   trackIdx, eventIdx, channel, instrument, absoluteTime, channelCC,
                   channelPitchBendRange, output, returned, pc>>

\* this.applyTempoChanges(tempoChanges, this.header.bpm); return this
ApplyTempoChanges ==
    /\ pc = "split"
    /\ splitIdx > Len(tracks)
    /\ heap' = applyTempoChanges(heap, midiTracks, tempoChanges, header.bpm)
    /\ pc' = "decoded"
    /\ UNCHANGED <<midiData, header, midiTracks, tempoChanges, tracks,
                   channelInstruments, trackIdx, eventIdx, channel, instrument,
                   absoluteTime, channelCC, channelPitchBendRange, trackId, splitIdx,
                   output, returned>>

\* the calls below are made on a Midi at rest; pc names the latest call
AtRest == {"new", "decoded", "loaded", "changed", "encoded", "json", "sliced"}

\* no bytes to decode
NoData == [header |-> [formatType |-> 1, ticksPerBeat |-> DefaultPPQ], tracks |-> <<>>]

\* midiData and the other locals of decode are gone once decode has returned, and
\* a Midi on which another call is made is not given bytes to decode afterwards
NoDecode ==
    /\ midiData' = NoData
    /\ tempoChanges' = <<>>
    /\ tracks' = <<>>
    /\ channelInstruments' = <<>>
    /\ trackIdx' = 0
    /\ eventIdx' = 0
    /\ channel' = NoChannel
    /\ instrument' = NoInstrument
    /\ absoluteTime' = 0
    /\ channelCC' = <<>>
    /\ channelPitchBendRange' = <<>>
    /\ trackId' = 0
    /\ splitIdx' = 0

\* the tracks made by track(name), which have no id
Added == {i \in 1..Len(midiTracks) : midiTracks[i].id = -1}

TrackNames == {"title", "a"}

\* track(name)
AddTrack ==
    /\ pc \in AtRest
    /\ Cardinality(Added) < MaxAdded
    /\ \E name \in TrackNames :
           midiTracks' = Append(midiTracks, Track(name, NoInstrument, NoChannel))
    /\ output' = <<>>
    /\ returned' = <<>>
    /\ pc' = "changed"
    /\ NoDecode
    /\ UNCHANGED <<header, heap>>

\* encode()
Encode ==
    /\ pc \in AtRest
    /\ output' = encode(header, midiTracks, heap)
    /\ returned' = <<>>
    /\ pc' = "encoded"
    /\ NoDecode
    /\ UNCHANGED <<header, midiTracks, heap>>

\* the addresses of the notes and control changes of the tracks
TrackElements(ts) ==
    UNION {{t.notes[i] : i \in 1..Len(t.notes)}
           \cup UNION {{t.controlChanges[k][i] : i \in 1..Len(t.controlChanges[k])} :
                           k \in DOMAIN t.controlChanges} :
           t \in {ts[n] : n \in 1..Len(ts)}}

\* track.scale(ratio) on every track, the ratio being prevTempo / bpm
TrackScale(h, ts, prevTempo, bpm) ==
    [a \in 1..Len(h) |->
        IF a \in TrackElements(ts)
        THEN [h[a] EXCEPT !.time = Scale(@, <<prevTempo, bpm>>),
                          !.duration = IF @ = NoDuration THEN @
                                       ELSE Scale(@, <<prevTempo, bpm>>)]
        ELSE h[a]]

Bpms == {60, DefaultBpm}

\* times and durations four times as fine
Finer(h) ==
    [a \in 1..Len(h) |->
        [h[a] EXCEPT !.time = 4 * @,
                     !.duration = IF @ = NoDuration THEN @ ELSE 4 * @]]

\* the calls followed are those that leave whole milliseconds, none past MaxTime
WholeTimes(h, finer) ==
    \A a \in 1..Len(h) :
        /\ h[a].time <= MaxTime
        /\ h[a].duration <= MaxTime
        /\ finer[a].time = 4 * h[a].time
        /\ finer[a].duration = IF h[a].duration = NoDuration THEN NoDuration
                               ELSE 4 * h[a].duration

\* set bpm(bpm)
SetBpm ==
    /\ pc \in AtRest
    /\ \E bpm \in Bpms :
           /\ WholeTimes(TrackScale(heap, midiTracks, header.bpm, bpm),
                         TrackScale(Finer(heap), midiTracks, header.bpm, bpm))
           /\ header' = [header EXCEPT !.bpm = bpm]
           /\ heap' = TrackScale(heap, midiTracks, header.bpm, bpm)
    /\ output' = <<>>
    /\ returned' = <<>>
    /\ pc' = "changed"
    /\ NoDecode
    /\ UNCHANGED <<midiTracks>>

\* the tempo changes handed to applyTempoChanges
ChangeLists ==
    {<<>>, <<Control("null", 0, 60)>>, <<Control("null", 500, 240)>>}

FinerChanges(changes) == [i \in 1..Len(changes) |-> [changes[i] EXCEPT !.time = 4 * @]]

\* applyTempoChanges(changes, bpm), called on a Midi at rest
CallApplyTempoChanges ==
    /\ pc \in AtRest
    /\ \E changes \in ChangeLists, bpm \in {DefaultBpm} :
           /\ WholeTimes(applyTempoChanges(heap, midiTracks, changes, bpm),
                         applyTempoChanges(Finer(heap), midiTracks,
                                           FinerChanges(changes), bpm))
           /\ heap' = applyTempoChanges(heap, midiTracks, changes, bpm)
    /\ output' = <<>>
    /\ returned' = <<>>
    /\ pc' = "changed"
    /\ NoDecode
    /\ UNCHANGED <<header, midiTracks>>

TimeSignatures == {<<4, 4>>, <<3, 4>>}

\* set timeSignature(timeSig)
SetTimeSignature ==
    /\ pc \in AtRest
    /\ \E timeSig \in TimeSignatures :
           header' = IF Has(header, "timeSignature")
                     THEN [header EXCEPT !.timeSignature = timeSig]
                     ELSE [name |-> header.name, bpm |-> header.bpm, PPQ |-> header.PPQ,
                           timeSignature |-> timeSig]
    /\ output' = <<>>
    /\ returned' = <<>>
    /\ pc' = "changed"
    /\ NoDecode
    /\ UNCHANGED <<midiTracks, heap>>

\* a note of a track record
JsonNote == [midi |-> 60, time |-> 1000, duration |-> 500, velocity |-> 127]

\* a track record
JsonTrack(name, notes) ==
    [name |-> name, id |-> 0, instrumentNumber |-> NoInstrument,
     channelNumber |-> NoChannel, notes |-> notes]

JsonTracks == {JsonTrack("title", <<>>), JsonTrack("a", <<>>), JsonTrack("a", <<JsonNote>>)}

JsonHeaders ==
    {[name |-> "title", bpm |-> 90, PPQ |-> 96],
     [name |-> NoName, bpm |-> DefaultBpm, PPQ |-> DefaultPPQ, timeSignature |-> <<3, 4>>]}

\* the records handed to Midi.fromJSON
Jsons ==
    {[header |-> h, tracks |-> t] :
        h \in JsonHeaders, t \in UNION {[1..n -> JsonTracks] : n \in 0..MaxJsonTracks}}

\* Track.fromJSON(track): [track, heap]
RECURSIVE TrackFromJSONNotes(_, _, _)
TrackFromJSONNotes(t, h, notes) ==
    IF notes = <<>> THEN [track |-> t, heap |-> h]
    ELSE LET n == Head(notes)
             note == [kind |-> "note", number |-> n.midi, time |-> n.time,
                      duration |-> n.duration, value |-> n.velocity,
                      channel |-> t.channelNumber, instrument |-> t.instrumentNumber]
             h2 == Append(h, note)
         IN  TrackFromJSONNotes([t EXCEPT !.notes = Append(@, Len(h2))], h2, Tail(notes))

TrackFromJSON(json, h) ==
    TrackFromJSONNotes([Track(json.name, json.instrumentNumber, json.channelNumber)
                            EXCEPT !.id = json.id],
                       h, json.notes)

\* json.tracks.forEach of fromJSON: [tracks, heap]
RECURSIVE FromJSONTracks(_, _, _)
FromJSONTracks(ts, h, jsonTracks) ==
    IF jsonTracks = <<>> THEN [tracks |-> ts, heap |-> h]
    ELSE LET r == TrackFromJSON(Head(jsonTracks), h)
         IN  FromJSONTracks(Append(ts, r.track), r.heap, Tail(jsonTracks))

\* Midi.fromJSON(json), the Midi it makes being the one followed from then on
FromJSON ==
    /\ pc = "new"
    /\ \E json \in Jsons :
           LET r == FromJSONTracks(midiTracks, heap, json.tracks)
           IN  /\ header' = json.header
               /\ midiTracks' = r.tracks
               /\ heap' = r.heap
    /\ pc' = "loaded"
    /\ NoDecode
    /\ UNCHANGED <<output, returned>>

\* Track.startTime: the time of the first note
TrackStartTime(t, h) == IF t.notes = <<>> THEN 0 ELSE h[t.notes[1]].time

\* Track.duration is a number unless a note has no duration yet
TrackDurationIsNumber(t, h) ==
    \A i \in 1..Len(t.notes) : h[t.notes[i]].duration # NoDuration

\* Track.duration: the end of the note that ends last
TrackDuration(t, h) ==
    LET ends == {h[t.notes[i]].time + h[t.notes[i]].duration : i \in 1..Len(t.notes)}
    IN  IF ends = {} THEN 0 ELSE CHOOSE e \in ends : \A x \in ends : x <= e

\* get startTime
startTime(ts, h) ==
    LET startTimes == {TrackStartTime(ts[i], h) : i \in 1..Len(ts)}
    IN  IF startTimes = {} THEN 0
        ELSE CHOOSE m \in startTimes : \A x \in startTimes : m <= x

\* get duration; Math.max is NaN when a duration is, and NaN || 0 is 0
duration(ts, h) ==
    LET durations == {TrackDuration(ts[i], h) : i \in 1..Len(ts)}
    IN  IF durations = {} THEN 0
        ELSE IF \E i \in 1..Len(ts) : ~TrackDurationIsNumber(ts[i], h) THEN 0
        ELSE CHOOSE m \in durations : \A x \in durations : x <= m

\* the notes of a track, as records
NoteRecords(notes, h) ==
    [i \in 1..Len(notes) |->
        [midi |-> h[notes[i]].number, time |-> h[notes[i]].time,
         duration |-> h[notes[i]].duration, velocity |-> h[notes[i]].value]]

\* track.toJSON()
TrackToJSON(t, h) ==
    [name |-> t.name, id |-> t.id, instrumentNumber |-> t.instrumentNumber,
     channelNumber |-> t.channelNumber, notes |-> NoteRecords(t.notes, h)]

\* toJSON(): the record's header is this.header itself, which gets a name
ToJSON ==
    /\ pc \in AtRest
    /\ header' = IF ~Truthy(header.name) THEN [header EXCEPT !.name = ""] ELSE header
    /\ returned' = [header |-> header',
                    startTime |-> startTime(midiTracks, heap),
                    duration |-> duration(midiTracks, heap),
                    tracks |-> [i \in 1..Len(midiTracks) |->
                                    TrackToJSON(midiTracks[i], heap)]]
    /\ output' = <<>>
    /\ pc' = "json"
    /\ NoDecode
    /\ UNCHANGED <<midiTracks, heap>>

\* the notes of a track that start in [from, to), cut at `to`
RECURSIVE SliceNotes(_, _, _)
SliceNotes(notes, from, to) ==
    IF notes = <<>> THEN <<>>
    ELSE LET n == Head(notes)
         IN  (IF n.time >= from /\ n.time < to
              THEN <<[n EXCEPT !.duration = IF @ # NoDuration /\ n.time + @ > to
                                            THEN to - n.time ELSE @]>>
              ELSE <<>>)
             \o SliceNotes(Tail(notes), from, to)

\* t.slice(startTime, endTime)
TrackSlice(t, h, from, to) ==
    [name |-> t.name, notes |-> SliceNotes(NoteRecords(t.notes, h), from, to)]

\* slice(startTime = 0, endTime = this.duration): the Midi returned
Slice ==
    /\ pc \in AtRest
    /\ \E range \in {<<0, duration(midiTracks, heap)>>, <<500, 1250>>} :
           returned' = [header |-> header,
                        tracks |-> [i \in 1..Len(midiTracks) |->
                                        TrackSlice(midiTracks[i], heap, range[1], range[2])]]
    /\ output' = <<>>
    /\ pc' = "sliced"
    /\ NoDecode
    /\ UNCHANGED <<header, midiTracks, heap>>

DecodeNext ==
    \/ Decode
    \/ BeginTrack
    \/ DemuxEvent
    \/ EndTrack
    \/ BeginSplit
    \/ SplitTrack
    \/ ApplyTempoChanges

Next ==
    \/ DecodeNext
    \/ FromJSON
    \/ AddTrack
    \/ SetBpm
    \/ CallApplyTempoChanges
    \/ SetTimeSignature
    \/ ToJSON
    \/ Slice
    \/ Encode

(***************************************************************************)
(* The inputs.                                                             *)
(***************************************************************************)
\* notes on two channels and two program changes
SplitAlphabet ==
    {NoteOn(240, 0, 60, 127), NoteOn(240, 1, 60, 127),
     ProgramChange(0, 1, 5), ProgramChange(0, 1, 3)}

Init == Constructed(MidiFiles(SplitAlphabet, MaxEvents))

\* one call of decode on a new Midi, from its start to its return
Spec == Init /\ [][DecodeNext]_vars

\* tempo changes at 500 ms (to 60 BPM) and 250 ms later (to 240 BPM), notes, a control
TempoAlphabet ==
    {SetTempo(480, 1000000), SetTempo(240, 250000), NoteOn(240, 0, 60, 127),
     NoteOn(960, 0, 60, 127), NoteOff(480, 0, 60), Controller(240, 0, 7, 100)}

InitTempo == Constructed(MidiFiles(TempoAlphabet, MaxTempoEvents))

SpecTempo == InitTempo /\ [][DecodeNext]_vars

\* program changes and instrument names, then notes, controls and pitch bends
InstrumentAlphabet ==
    {NoteOn(240, 1, 60, 127), NoteOn(240, 0, 60, 127), ProgramChange(0, 1, 5),
     InstrumentName(0, "violin"), Controller(240, 1, 7, 100),
     PitchBendEvent(240, 1, 12288)}

InitInstrument == Constructed(MidiFiles(InstrumentAlphabet, MaxInstrumentEvents))

SpecInstrument == InitInstrument /\ [][DecodeNext]_vars

Channels == 0..15

\* every kind of event that carries a channel, on every channel, and one that does not
ChannelAlphabet ==
    UNION {{NoteOn(240, ch, 60, 127), NoteOff(240, ch, 60), Controller(240, ch, 7, 100),
            ProgramChange(0, ch, 5), PitchBendEvent(240, ch, 12288)} : ch \in Channels}
    \cup {TrackName(0, "a")}

InitChannel == Constructed(MidiFiles(ChannelAlphabet, MaxChannelEvents))

SpecChannel == InitChannel /\ [][DecodeNext]_vars

\* named tracks and notes; the Midi decoded, or one made from a record, is then
\* changed, serialized, sliced and encoded
EncodeAlphabet ==
    {TrackName(0, "title\\0"), TrackName(0, "a"), NoteOn(240, 0, 60, 127)}

InitEncode == Constructed(MidiFiles(EncodeAlphabet, MaxEncodeEvents))

SpecEncode == InitEncode /\ [][Next]_vars

(***************************************************************************)
(* What the claims speak of.                                               *)
(***************************************************************************)
\* the element collections of a track: its notes and each controller's changes
Collections(t) == {t.notes} \cup {t.controlChanges[k] : k \in DOMAIN t.controlChanges}

AllCollections == UNION {Collections(midiTracks[i]) : i \in 1..Len(midiTracks)}

SortedByTime(changes) ==
    \A i, j \in 1..Len(changes) : i < j => changes[i].time <= changes[j].time

RemoveAt(s, i) == SubSeq(s, 1, i - 1) \o SubSeq(s, i + 1, Len(s))

\* the division of every conversion above is exact on the inputs drawn
ExactArithmetic ==
    /\ \A t \in 1..Len(midiData.tracks) : \A i \in 1..Len(midiData.tracks[t]) :
           LET e == midiData.tracks[t][i]
           IN  /\ (e.deltaTime * (60000 \div DefaultBpm)) % DefaultPPQ = 0
               /\ Has(e, "microsecondsPerBeat") => 60000000 % e.microsecondsPerBeat = 0
    /\ \A a \in 1..Len(heap) : heap[a].time >= 0 /\ heap[a].duration >= NoDuration

(***************************************************************************)
(* C1.  Decoding the two-track stream (PPQ 480, reference tempo 120 BPM)   *)
(* whose track 0 changes the tempo to 60 BPM at tick 480 and whose track 1 *)
(* has a note-on at tick 960 and its note-off 480 ticks later yields one   *)
(* note whose warped start is 1.5 s and whose warped duration is 0.5 s.    *)
(***************************************************************************)
ScenarioStream ==
    << <<SetTempo(480, 1000000)>>, <<NoteOn(960, 0, 60, 127), NoteOff(480, 0, 60)>> >>

C1_ScenarioWarp ==
    (pc = "decoded" /\ midiData.tracks = ScenarioStream) =>
        /\ header.bpm = 120 /\ header.PPQ = 480
        /\ Len(midiTracks) = 1
        /\ Len(midiTracks[1].notes) = 1
        /\ heap[midiTracks[1].notes[1]].time = 1500
        /\ heap[midiTracks[1].notes[1]].duration = 500

(***************************************************************************)
(* C3.  Every insertion of a tempo breakpoint during decode leaves the     *)
(* breakpoint sequence non-decreasing by time: the new breakpoint is put   *)
(* after every breakpoint whose time is less than or equal to its own and  *)
(* before every later one, the others keeping their order.                 *)
(***************************************************************************)
C3_InsertionKeepsOrder ==
    [][tempoChanges' # tempoChanges =>
          /\ SortedByTime(tempoChanges')
          /\ \E i \in 1..Len(tempoChanges') :
                 /\ RemoveAt(tempoChanges', i) = tempoChanges
                 /\ tempoChanges'[i].time = absoluteTime'
                 /\ \A j \in 1..Len(tempoChanges') :
                        /\ j < i => tempoChanges'[j].time <= tempoChanges'[i].time
                        /\ j > i => tempoChanges'[j].time > tempoChanges'[i].time]_vars

\* track 1 finds a breakpoint before, and one at the time of, track 0's
C3_Witness ==
    /\ trackIdx = 2
    /\ tempoChanges = <<Control("null", 250, 240), Control("null", 500, 60),
                        Control("null", 500, 240)>>

(***************************************************************************)
(* C4.  With an empty breakpoint sequence applyTempoChanges changes no     *)
(* note time, no note duration and no control-change time, and leaves the  *)
(* tracks and the order of their elements as they were.                    *)
(***************************************************************************)
C4_EmptyChangesNoOp ==
    [][(pc = "split" /\ pc' = "decoded" /\ tempoChanges = <<>>) =>
          /\ midiTracks' = midiTracks
          /\ Len(heap') = Len(heap)
          /\ \A a \in 1..Len(heap) :
                 /\ heap'[a].time = heap[a].time
                 /\ heap'[a].duration = heap[a].duration]_vars

\* decoded without a tempo change: a note with a duration and a control change
C4_Witness ==
    /\ pc = "decoded"
    /\ tempoChanges = <<>>
    /\ \E i \in 1..Len(midiTracks) :
           /\ \E n \in 1..Len(midiTracks[i].notes) :
                  /\ heap[midiTracks[i].notes[n]].time > 0
                  /\ heap[midiTracks[i].notes[n]].duration > 0
           /\ \E k \in DOMAIN midiTracks[i].controlChanges :
                  heap[midiTracks[i].controlChanges[k][1]].time > 0

(***************************************************************************)
(* C7.  The tempo warp is monotone: with a non-empty breakpoint sequence,  *)
(* two elements of one collection that are in non-decreasing nominal-time  *)
(* order are in non-decreasing order after the warp too, also when the     *)
(* first lies before the first breakpoint and the second at or after it.   *)
(***************************************************************************)
C7_WarpMonotone ==
    [][(pc = "split" /\ pc' = "decoded" /\ tempoChanges # <<>>) =>
          \A c \in AllCollections : \A i, j \in 1..Len(c) :
              (i < j /\ heap[c[i]].time <= heap[c[j]].time) =>
                  heap'[c[i]].time <= heap'[c[j]].time]_vars

\* the addresses of a track's notes, and of all its elements
NoteSet(t) == {t.notes[i] : i \in 1..Len(t.notes)}

ElementSet(t) ==
    NoteSet(t) \cup UNION {{t.controlChanges[k][i] : i \in 1..Len(t.controlChanges[k])} :
                              k \in DOMAIN t.controlChanges}

RECURSIVE NoteCount(_)
NoteCount(ts) == IF ts = <<>> THEN 0 ELSE Len(Head(ts).notes) + NoteCount(Tail(ts))

\* tracks.forEach has run on every raw track
AllSplit == pc = "decoded" \/ (pc = "split" /\ splitIdx > Len(tracks))

(***************************************************************************)
(* C2.  Splitter completeness: once every raw track is split, the output   *)
(* tracks hold as many notes as the raw tracks do, and every note of a raw *)
(* track is at exactly one place of exactly one output track.              *)
(***************************************************************************)
C2_SplitterComplete ==
    AllSplit =>
        /\ NoteCount(midiTracks) = NoteCount(tracks)
        /\ \A r \in 1..Len(tracks) : \A a \in NoteSet(tracks[r]) :
               Cardinality({p \in {<<i, k>> : i \in 1..Len(midiTracks), k \in 1..Len(heap)} :
                               /\ p[2] <= Len(midiTracks[p[1]].notes)
                               /\ midiTracks[p[1]].notes[p[2]] = a}) = 1

\* two raw tracks with notes, one of them split over two output tracks
C2_Witness ==
    /\ pc = "decoded"
    /\ Len(tracks) = 2
    /\ Len(tracks[1].notes) >= 2
    /\ Len(tracks[2].notes) >= 1
    /\ Len(midiTracks) = 3
    /\ \E i \in 1..Len(midiTracks) : Len(midiTracks[i].notes) >= 2

(***************************************************************************)
(* C5.  Track ids are dense and global: the i-th track of midi.tracks has  *)
(* id i (from 0), over all raw tracks together; the tracks made from one   *)
(* raw track are in ascending channel order and, within a channel, in      *)
(* ascending instrument order.                                             *)
(***************************************************************************)
SameRawTrack(i, j) ==
    \E r \in 1..Len(tracks) :
        /\ ElementSet(tracks[r]) \cap ElementSet(midiTracks[i]) # {}
        /\ ElementSet(tracks[r]) \cap ElementSet(midiTracks[j]) # {}

C5_DenseOrderedIds ==
    pc \in {"split", "decoded"} =>
        /\ \A i \in 1..Len(midiTracks) : midiTracks[i].id = i - 1
        /\ trackId = Len(midiTracks)
        /\ \A i, j \in 1..Len(midiTracks) :
               (i < j /\ SameRawTrack(i, j)) =>
                   \/ midiTracks[i].channelNumber < midiTracks[j].channelNumber
                   \/ /\ midiTracks[i].channelNumber = midiTracks[j].channelNumber
                      /\ midiTracks[i].instrumentNumber < midiTracks[j].instrumentNumber

\* a raw track whose channels and instruments are discovered in descending order
C5_Witness ==
    /\ pc = "decoded"
    /\ \E i, j, k \in 1..Len(midiTracks) :
           /\ i < j /\ j < k
           /\ SameRawTrack(i, j) /\ SameRawTrack(j, k)
           /\ midiTracks[i].channelNumber < midiTracks[j].channelNumber
           /\ midiTracks[j].channelNumber = midiTracks[k].channelNumber
           /\ midiTracks[j].instrumentNumber < midiTracks[k].instrumentNumber
           /\ midiTracks[k].notes # <<>> /\ midiTracks[j].notes # <<>>
           /\ midiTracks[i].notes # <<>>
           /\ midiTracks[k].notes[1] < midiTracks[j].notes[1]
           /\ midiTracks[j].notes[1] < midiTracks[i].notes[1]

(***************************************************************************)
(* C10.  Splitting a raw track makes exactly one output track for each     *)
(* distinct effective (channel, instrument) pair of its notes and control  *)
(* changes (the element's own channel, else the raw track's; the element's *)
(* own instrument, else the raw track's, else 0): every element is in the  *)
(* one new track of its pair, the new tracks have different pairs, and no  *)
(* new track is without an element.                                        *)
(***************************************************************************)
EffectivePair(el, raw) ==
    <<IF el.channel # -1 THEN el.channel ELSE raw.channelNumber,
      IF el.instrument # -1 THEN el.instrument
      ELSE IF raw.instrumentNumber # -1 THEN raw.instrumentNumber ELSE 0>>

TrackPair(t) == <<t.channelNumber, t.instrumentNumber>>

C10_OneTrackPerPair ==
    [][(pc = "split" /\ splitIdx' = splitIdx + 1) =>
          LET raw == tracks[splitIdx]
              new == (Len(midiTracks) + 1)..Len(midiTracks')
          IN  /\ SubSeq(midiTracks', 1, Len(midiTracks)) = midiTracks
              /\ \A i \in new : ElementSet(midiTracks'[i]) # {}
              /\ \A i, j \in new :
                     i # j => TrackPair(midiTracks'[i]) # TrackPair(midiTracks'[j])
              /\ \A a \in ElementSet(raw) :
                     /\ Cardinality({i \in new : a \in ElementSet(midiTracks'[i])}) = 1
                     /\ \A i \in new :
                            a \in ElementSet(midiTracks'[i]) =>
                                TrackPair(midiTracks'[i]) = EffectivePair(heap[a], raw)]_vars

\* a raw track split in two, a note and a control change sharing one output track
C10_Witness ==
    /\ pc = "split"
    /\ splitIdx = 2
    /\ Len(midiTracks) = 2
    /\ \E i \in 1..2 :
           /\ midiTracks[i].notes # <<>>
           /\ DOMAIN midiTracks[i].controlChanges # {}
    /\ \E a \in ElementSet(tracks[1]) : heap[a].instrument = DefaultInstrument

(***************************************************************************)
(* C6.  encode puts a leading name-only track carrying the header's name   *)
(* before the tracks exactly when the header has a name and no empty track *)
(* of the Midi has that name; the other tracks of the output are the       *)
(* Midi's tracks, one each, in order.                                      *)
(***************************************************************************)
IsEmptyTrack(t) == t.notes = <<>> /\ \A k \in DOMAIN t.controlChanges : t.controlChanges[k] = <<>>

\* the output is the Midi's tracks in order, after `lead` leading tracks
TracksInOrder(lead) ==
    /\ Len(output) = Len(midiTracks) + lead
    /\ \A i \in 1..Len(midiTracks) :
           /\ output[i + lead][1].type = "setTempo"
           /\ Cardinality({k \in 1..Len(output[i + lead]) :
                               output[i + lead][k].type = "note"})
                  = Len(midiTracks[i].notes)
           /\ midiTracks[i].name \notin {NoName, ""} =>
                  /\ Len(output[i + lead]) >= 2
                  /\ output[i + lead][2] = MetaTrackName(midiTracks[i].name)

LeadingNameTrack == output # <<>> /\ output[1] = <<MetaTrackName(header.name)>>

C6_NameTrackUnlessAnyEmpty ==
    pc = "encoded" =>
        IF /\ header.name \notin {NoName, ""}
           /\ ~(\E i \in 1..Len(midiTracks) :
                    IsEmptyTrack(midiTracks[i]) /\ midiTracks[i].name = header.name)
        THEN LeadingNameTrack /\ TracksInOrder(1)
        ELSE TracksInOrder(0)

(***************************************************************************)
(* C6, amended.  encode puts a leading name-only track carrying the        *)
(* header's name before the tracks exactly when the header has a name and  *)
(* the first empty track of the Midi, if there is one, does not have that  *)
(* name; the other tracks of the output are the Midi's tracks, one each,   *)
(* in order.                                                               *)
(***************************************************************************)
FirstEmptyHasName(name) ==
    \E i \in 1..Len(midiTracks) :
        /\ IsEmptyTrack(midiTracks[i])
        /\ \A j \in 1..(i - 1) : ~IsEmptyTrack(midiTracks[j])
        /\ midiTracks[i].name = name

C6_NameTrackUnlessFirstEmpty ==
    pc = "encoded" =>
        IF header.name \notin {NoName, ""} /\ ~FirstEmptyHasName(header.name)
        THEN LeadingNameTrack /\ TracksInOrder(1)
        ELSE TracksInOrder(0)

\* the header's name is the name of the second empty track, not of the first
C6_Witness ==
    /\ pc = "encoded"
    /\ header.name = "title"
    /\ Len(midiTracks) = 2
    /\ IsEmptyTrack(midiTracks[1]) /\ midiTracks[1].name = "a"
    /\ IsEmptyTrack(midiTracks[2]) /\ midiTracks[2].name = "title"
    /\ Len(output) = 3

(***************************************************************************)
(* C8.  Once a raw track is demuxed, its channelNumber is the channel of   *)
(* the first event of the raw track that carries a channel, whatever the   *)
(* channel (0..15) and the kind of event, and -1 if no event carries one.  *)
(***************************************************************************)
RECURSIVE FirstChannel(_)
FirstChannel(events) ==
    IF events = <<>> THEN -1
    ELSE IF "channel" \in DOMAIN Head(events) THEN Head(events).channel
    ELSE FirstChannel(Tail(events))

C8_ChannelOfFirstEvent ==
    \A r \in 1..Len(tracks) :
        (r < trackIdx \/ pc \in {"split", "decoded"}) =>
            tracks[r].channelNumber = FirstChannel(midiData.tracks[r])

(***************************************************************************)
(* C9.  An element made from a note-on, controller or pitch-bend on        *)
(* channel c is stamped with the program number of the latest              *)
(* program-change or instrument-name for channel c earlier in the same raw *)
(* track, and with -1 if that raw track has none before it, whatever       *)
(* earlier raw tracks set for channel c.                                   *)
(***************************************************************************)
SetsChannel(e) ==
    \/ e.subtype \in {"noteOn", "programChange", "pitchBend"}
    \/ e.subtype = "controller" /\ e.controllerType # 0

Last(S) == CHOOSE q \in S : \A x \in S : x <= q

\* the channel an instrument name at place p of a raw track is bound to
BoundChannel(events, p) ==
    LET prior == {q \in 1..(p - 1) : SetsChannel(events[q])}
    IN  IF prior = {} THEN -1 ELSE events[Last(prior)].channel

Binds(events, q, c) ==
    \/ events[q].subtype = "programChange" /\ events[q].channel = c
    \/ events[q].subtype = "instrumentName" /\ BoundChannel(events, q) = c

\* the latest binding of channel c among the first n events, else default
LatestInTrack(events, n, c, default) ==
    LET hits == {q \in 1..n : Binds(events, q, c)}
    IN  IF hits = {} THEN default
        ELSE IF events[Last(hits)].subtype = "programChange"
             THEN events[Last(hits)].programNumber
             ELSE PatchByName(events[Last(hits)].text)

RECURSIVE LatestInTracks(_, _)
LatestInTracks(t, c) ==
    IF t = 0 THEN -1
    ELSE LatestInTrack(midiData.tracks[t], Len(midiData.tracks[t]), c,
                       LatestInTracks(t - 1, c))

NewElement == heap'[Len(heap')]

C9_InstrumentPerRawTrack ==
    [][Len(heap') = Len(heap) + 1 =>
          NewElement.instrument =
              LatestInTrack(midiData.tracks[trackIdx], eventIdx - 1,
                            NewElement.channel, -1)]_vars

(***************************************************************************)
(* C9, amended.  An element made from a note-on, controller or pitch-bend  *)
(* on channel c is stamped with the program number of the latest           *)
(* program-change or instrument-name for channel c earlier in the decode,  *)
(* in the same raw track or in an earlier one, and with -1 if there is     *)
(* none: the per-channel instrument is shared by the raw tracks of one     *)
(* decode.                                                                 *)
(***************************************************************************)
C9_InstrumentPerDecode ==
    [][Len(heap') = Len(heap) + 1 =>
          NewElement.instrument =
              LatestInTrack(midiData.tracks[trackIdx], eventIdx - 1,
                            NewElement.channel,
                            LatestInTracks(trackIdx - 1, NewElement.channel))]_vars

\* a note of raw track 2 carries the program raw track 1 set for its channel
C9_Witness ==
    /\ pc = "event"
    /\ trackIdx = 2
    /\ \A q \in 1..Len(midiData.tracks[2]) :
           midiData.tracks[2][q].subtype \notin {"programChange", "instrumentName"}
    /\ \E a \in NoteSet(tracks[2]) : heap[a].instrument = 5
    /\ \E a \in ElementSet(tracks[2]) : heap[a].instrument = -1

====
